---- MODULE Spec2Model ----
(***************************************************************************)
(* Smart-farm intrusion detector (tl3.py): the detection loop              *)
(* (SmartAnimalDetector.start_detection), the buzzer command               *)
(* (control_buzzer), the distance listener thread (distance_listener) and  *)
(* the ultrasonic distance producer (ultrasonic.py).                       *)
(*                                                                         *)
(* Units.  Time is counted in quarter seconds, so the 0.5 s sampling       *)
(* interval is 2 and the 1.0 s buzzer duration is 4.  Distances are        *)
(* counted in hundredths of a centimetre (the producer rounds to two       *)
(* decimals), so the 50 cm threshold is 5000 and the start value 999 is    *)
(* 99900.  Bytes on the socket are one-character strings; "xFF" stands     *)
(* for a byte that is not valid UTF-8.                                     *)
(***************************************************************************)
EXTENDS Integers, Sequences, FiniteSets, TLC

\* ---------------------------------------------------------------- bounds
MaxTime == 6            \* the clock stops advancing here
MaxDetections == 2      \* boxes the classifier returns for one frame
MaxInFlight == 2        \* lines sent by the producer and not yet received

\* ------------------------------------------------------ program constants
SamplingInterval == 2        \* 0.5 s
buzzer_duration == 4         \* 1.0 s
distance_threshold == 5000   \* 50 cm
InitialDistance == 99900     \* 999

animal_classes ==
    {"bird", "cat", "dog", "horse", "sheep", "cow",
     "elephant", "bear", "zebra", "giraffe", "rat"}

\* Class names the classifier may report: a monitored one, a monitored one
\* in another case, and one that is not monitored.
ClassNames == {"dog", "Cat", "person"}

\* class_name.lower() on the names above.
Lower(name) == CASE name = "Cat" -> "cat" [] OTHER -> name

\* The boxes a frame can yield, with the raw model confidence in percent
\* (conf=0.5 is the floor passed to the model): a monitored name and the
\* unmonitored name at a high confidence.  The mixed-case name is run
\* through the payload builder with SynthNames.
Boxes ==
    {[name |-> "dog", conf |-> 80], [name |-> "person", conf |-> 90]}

RECURSIVE SeqsUpTo(_, _)
SeqsUpTo(S, n) ==
    IF n = 0 THEN {<< >>}
    ELSE LET shorter == SeqsUpTo(S, n - 1)
         IN  shorter \cup {Append(s, x) : s \in {t \in shorter : Len(t) = n - 1}, x \in S}

\* What self.model(small_frame, conf=0.5) can return.
DetectionLists == SeqsUpTo(Boxes, MaxDetections)

\* ------------------------------------------------------------ the buzzer
\* How one POST to the pin-control service can end:
\*   ok          200, the pin was driven
\*   pin_error   200, but the entry for the pin has status "error"
\*   http_error  a status other than 200
\*   exception   requests.post raised before the service acted (no route, refused)
\*   lost_reply  requests.post raised (timeout) after the service drove the pin
ServiceOutcomes == {"ok", "pin_error", "http_error", "exception", "lost_reply"}

Status200(outcome) == outcome \in {"ok", "pin_error"}

PinDriven(outcome) == outcome \in {"ok", "lost_reply"}

NoCall == [state |-> FALSE, outcome |-> "none"]

\* Variant: the tracked state is never updated.
BuzzerOnAfter_Never(on, state, outcome) == on

\* control_buzzer: self.buzzer_on after the call.
BuzzerOnAfter(on, state, outcome) == IF Status200(outcome) THEN state ELSE on

\* The physical pin after the call.
PinAfter(pin, state, outcome) == IF PinDriven(outcome) THEN state ELSE pin

\* ------------------------------------------------------- loop conditions
\* Variant: the duration has to be exceeded, not reached.
AutoOffDue_Strict(on, ct, lbt) == on /\ (ct - lbt > buzzer_duration)

AutoOffDue(on, ct, lbt) == on /\ (ct - lbt >= buzzer_duration)

SamplePoint(ct, ldt) == ct - ldt >= SamplingInterval

\* Variant: a reading equal to the threshold passes the gate.
ProximityGate_Inclusive(d) == d <= distance_threshold

ProximityGate(d) == d < distance_threshold

\* Variant: the allow-list filter is missing.
IsMonitored_AcceptAll(name) == TRUE

IsMonitored(name) == Lower(name) \in animal_classes

\* Variant: the distance is not read again at trigger time.
TriggerCond_NoRecheck(detected, d) == detected

TriggerCond(detected, d) == detected /\ d < distance_threshold

\* Variant: the sample time moves only when the model was called.
SampleTimeAfter_WhenInvoked(ct, ldt, inv) == IF inv THEN ct ELSE ldt

\* Line 240: last_detection_time at the end of a sample point.
SampleTimeAfter(ct, ldt, inv) == ct

\* How one POST to the alert collector can end.
PostOutcomes == {"ok", "http_error", "exception"}

\* ------------------------------------------------------ the alert payload
\* Confidences are integers: the raw model confidence and the table entries
\* in percent, the remapped confidence and the jitter in units of 0.0001,
\* the reported confidence_val in tenths of a percent.  A draw of
\* random.random() is given in percent (0..99).
severity_order == <<"low", "medium", "high", "critical">>

base_map ==
    [n \in animal_classes |->
        CASE n \in {"bird", "rat"} -> "low"
          [] n \in {"cat", "dog", "sheep"} -> "medium"
          [] n \in {"horse", "cow", "bear", "zebra", "giraffe"} -> "high"
          [] n = "elephant" -> "critical"]

conf_ranges ==
    [n \in animal_classes |->
        CASE n \in {"elephant", "bear"} -> <<80, 100>>
          [] n \in {"horse", "cow", "zebra", "giraffe"} -> <<70, 95>>
          [] n \in {"dog", "cat", "sheep"} -> <<60, 90>>
          [] n = "bird" -> <<40, 75>>
          [] n = "rat" -> <<40, 70>>]

Min(a, b) == IF a <= b THEN a ELSE b

Max(a, b) == IF a >= b THEN a ELSE b

\* severity_order.index(level), counted from 0.
IndexOf(level) == (CHOOSE i \in 1..Len(severity_order) : severity_order[i] = level) - 1

\* Lines 184-185: base_map.get(class_name.lower(), 'medium').
BaseSeverity(name) ==
    IF Lower(name) \in DOMAIN base_map THEN base_map[Lower(name)] ELSE "medium"

\* Variant: the thresholds are inclusive.
SeverityOffset_Inclusive(r) ==
    IF r <= 5 THEN 2 ELSE IF r <= 20 THEN 1 ELSE IF r <= 25 THEN -1 ELSE 0

\* Lines 188-196.
SeverityOffset(r) ==
    IF r < 5 THEN 2 ELSE IF r < 20 THEN 1 ELSE IF r < 25 THEN -1 ELSE 0

\* Lines 198-199.
SeverityFor(name, r) ==
    LET idx == Max(0, Min(Len(severity_order) - 1,
                          IndexOf(BaseSeverity(name)) + SeverityOffset(r)))
    IN  severity_order[idx + 1]

\* Line 180: conf_ranges.get(class_name.lower(), (0.5, 0.9)).
ConfRange(name) ==
    IF Lower(name) \in DOMAIN conf_ranges THEN conf_ranges[Lower(name)] ELSE <<50, 90>>

\* Variant: the remapped confidence is not clamped.
MappedConf_NoClamp(name, raw, jitter) ==
    LET low  == ConfRange(name)[1]
        high == ConfRange(name)[2]
    IN  100 * low + (high - low) * raw + jitter

\* Lines 180-182: the remapped confidence in units of 0.0001.
MappedConf(name, raw, jitter) ==
    LET low  == ConfRange(name)[1]
        high == ConfRange(name)[2]
    IN  Max(0, Min(10000, 100 * low + (high - low) * raw + jitter))

\* round(x, 1) of a percentage given in units of 0.01: tenths of a percent,
\* a tie going to the even neighbour.
RoundTenth(c) ==
    LET q == c \div 10
        m == c % 10
    IN  IF m < 5 THEN q
        ELSE IF m > 5 THEN q + 1
        ELSE IF q % 2 = 0 THEN q ELSE q + 1

\* Line 202.
ConfidenceVal(name, raw, jitter) == RoundTenth(MappedConf(name, raw, jitter))

\* Lines 204-216: the fields of the payload that vary.
BuildPayload(name, raw, jitter, r) ==
    [animalType |-> name,
     severity   |-> SeverityFor(name, r),
     confidence |-> ConfidenceVal(name, raw, jitter)]

NoPayload == [animalType |-> "", severity |-> "", confidence |-> 0]

NoDraw == [raw |-> 0, jitter |-> 0, r |-> 0]

\* The time of a model call when there was none yet.
NoTime == 0 - 1

\* The draws the detection loop is run with: a draw of random.random()
\* that keeps the base severity (three draws in four do) and the upper end
\* of random.uniform(-0.02, 0.02).  The payload builder is run over the
\* other draws with RDraws and SynthJitters.
LoopRDraws == {60}

LoopJitters == {200}

\* ----------------------------------------------------------- the listener
Digits == {"0", "1", "2", "3", "4", "5", "6", "7", "8", "9"}

DigitVal(c) ==
    CASE c = "0" -> 0 [] c = "1" -> 1 [] c = "2" -> 2 [] c = "3" -> 3
      [] c = "4" -> 4 [] c = "5" -> 5 [] c = "6" -> 6 [] c = "7" -> 7
      [] c = "8" -> 8 [] c = "9" -> 9

Whitespace == {"\n", " "}

\* The lines the producer writes: f"{dist}\n" for 40.0 and 50.0.
ValidLines == {<<"4", "0", ".", "0", "\n">>, <<"5", "0", ".", "0", "\n">>}

\* Lines another client could write: text that is no number, and a byte
\* that is not UTF-8.
MalformedLines == {<<"a", "b", "c", "\n">>, <<"xFF", "\n">>}

\* bytes.decode(): fails on a byte that is not UTF-8, else the same characters.
DecodeOK(data) == \A i \in 1..Len(data) : data[i] # "xFF"

\* str.strip(): drop leading and trailing whitespace.
Strip(s) ==
    LET keep == {i \in 1..Len(s) : s[i] \notin Whitespace}
    IN  IF keep = {} THEN << >>
        ELSE LET lo == CHOOSE i \in keep : \A j \in keep : i <= j
                 hi == CHOOSE i \in keep : \A j \in keep : i >= j
             IN  SubSeq(s, lo, hi)

\* Position of the decimal point, or Len(s)+1 when there is none.
DotPos(s) ==
    IF \E i \in 1..Len(s) : s[i] = "."
    THEN CHOOSE i \in 1..Len(s) : s[i] = "." /\ \A j \in 1..(i - 1) : s[j] # "."
    ELSE Len(s) + 1

\* float(s) succeeds: digits, at most one point, at least one digit.
FloatOK(s) ==
    /\ \A i \in 1..Len(s) : s[i] \in Digits \cup {"."}
    /\ Cardinality({i \in 1..Len(s) : s[i] = "."}) <= 1
    /\ \E i \in 1..Len(s) : s[i] \in Digits

RECURSIVE IntVal(_)
IntVal(s) == IF s = << >> THEN 0
             ELSE 10 * IntVal(SubSeq(s, 1, Len(s) - 1)) + DigitVal(s[Len(s)])

\* float(s) in hundredths (two fractional digits are kept).
FloatValue(s) ==
    LET p    == DotPos(s)
        ip   == SubSeq(s, 1, p - 1)
        fr   == SubSeq(s, p + 1, Len(s))
        d1   == IF Len(fr) >= 1 THEN DigitVal(fr[1]) ELSE 0
        d2   == IF Len(fr) >= 2 THEN DigitVal(fr[2]) ELSE 0
    IN  100 * IntVal(ip) + 10 * d1 + d2

\* Variant: the cell is written after the first character is parsed.
DistanceAfter_Partial(cur, data) ==
    LET dist_str == Strip(data)
    IN  IF FloatOK(dist_str) THEN 100 * DigitVal(dist_str[1]) ELSE cur

\* Lines 78-82: the distance cell after one decodable chunk.
DistanceAfter(cur, data) ==
    LET dist_str == Strip(data)
    IN  IF FloatOK(dist_str) THEN FloatValue(dist_str) ELSE cur

\* --------------------------------------------- the pin-control server
\* gpio_control_server.py.  A pin level is "unset" until GPIO.output has
\* driven it.  The hardware state is a record of the controller's
\* initialized_pins, the pin levels and the pins handed to any GPIO call.
MaxPins == 2

\* Pin numbers a request can carry: both ends of the BCM range and the
\* numbers next to them.
PinNumbers == {0 - 1, 0, 27, 28}

\* Variant: the upper end of the range is one too high.
ValidPin_OffByOne(pin) == 0 <= pin /\ pin <= 28

\* Lines 151, 183, 216: 0 <= pin <= 27.
ValidPin(pin) == 0 <= pin /\ pin <= 27

\* The GPIO call that raises while a request is handled, if any: GPIO.setup
\* or GPIO.output on one pin.
NoFault == [kind |-> "none", pin |-> 0]

Faults == {NoFault} \cup [kind : {"setup", "output"}, pin : {0, 27}]

PinRequests == [pin : PinNumbers, state : BOOLEAN]

LevelOf(state) == IF state THEN "HIGH" ELSE "LOW"

\* Lines 71-102: set_pin_state (with setup_pin) on the hardware state hw;
\* ok is its return value.
SetPinState(hw, pin, state, fault, mode) ==
    IF mode = "simulation" THEN [hw |-> hw, ok |-> TRUE]
    ELSE LET setupCalled == pin \notin hw.initialized
             setupFails  == setupCalled /\ fault = [kind |-> "setup", pin |-> pin]
             outputFails == fault = [kind |-> "output", pin |-> pin]
             touched     == hw.touched \cup {pin}
         IN  IF setupFails
             THEN [hw |-> [hw EXCEPT !.touched = touched], ok |-> FALSE]
             ELSE IF outputFails
             THEN [hw |-> [hw EXCEPT !.touched = touched,
                                     !.initialized = @ \cup {pin}],
                   ok |-> FALSE]
             ELSE [hw |-> [hw EXCEPT !.touched = touched,
                                     !.initialized = @ \cup {pin},
                                     !.level[pin] = LevelOf(state)],
                   ok |-> TRUE]

\* Variant: the first entry that is not a success ends the request.
RECURSIVE MultiplePins_StopAtError(_, _, _, _)
MultiplePins_StopAtError(hw, pins, fault, mode) ==
    IF pins = << >> THEN [hw |-> hw, entries |-> << >>]
    ELSE LET req == Head(pins)
         IN  IF ~ValidPin(req.pin)
             THEN [hw |-> hw,
                   entries |-> <<[pin |-> req.pin, state |-> req.state, status |-> "error"]>>]
             ELSE LET set == SetPinState(hw, req.pin, req.state, fault, mode)
                  IN  IF ~set.ok
                      THEN [hw |-> set.hw,
                            entries |-> <<[pin |-> req.pin, state |-> req.state,
                                           status |-> "error"]>>]
                      ELSE LET rest == MultiplePins_StopAtError(set.hw, Tail(pins), fault, mode)
                           IN  [hw |-> rest.hw,
                                entries |-> <<[pin |-> req.pin, state |-> req.state,
                                               status |-> "success"]>> \o rest.entries]

\* Lines 176-210: the for loop of control_multiple_pins.
RECURSIVE MultiplePins(_, _, _, _)
MultiplePins(hw, pins, fault, mode) ==
    IF pins = << >> THEN [hw |-> hw, entries |-> << >>]
    ELSE LET req == Head(pins)
         IN  IF ~ValidPin(req.pin)
             THEN LET rest == MultiplePins(hw, Tail(pins), fault, mode)
                  IN  [hw |-> rest.hw,
                       entries |-> <<[pin |-> req.pin, state |-> req.state,
                                      status |-> "error"]>> \o rest.entries]
             ELSE LET set  == SetPinState(hw, req.pin, req.state, fault, mode)
                      rest == MultiplePins(set.hw, Tail(pins), fault, mode)
                  IN  [hw |-> rest.hw,
                       entries |-> <<[pin |-> req.pin, state |-> req.state,
                                      status |-> IF set.ok THEN "success" ELSE "error"]>>
                                   \o rest.entries]

\* Lines 235-242: the for loop of reset_all_pins over the pins in the order
\* the set is iterated in.
RECURSIVE ResetPins(_, _, _, _)
ResetPins(hw, order, fault, mode) ==
    IF order = << >> THEN [hw |-> hw, entries |-> << >>]
    ELSE LET set  == SetPinState(hw, Head(order), FALSE, fault, mode)
             rest == ResetPins(set.hw, Tail(order), fault, mode)
         IN  [hw |-> rest.hw,
              entries |-> <<[pin |-> Head(order), state |-> FALSE,
                             status |-> IF set.ok THEN "success" ELSE "error"]>>
                          \o rest.entries]

\* The orders a set can be iterated in.
Orders(S) ==
    {o \in [1..Cardinality(S) -> S] : \A i, j \in 1..Cardinality(S) : o[i] = o[j] => i = j}

\* The pins of the entries with the given status.
PinsWith(entries, status) ==
    {entries[i].pin : i \in {k \in 1..Len(entries) : entries[k].status = status}}

NoRequest == [endpoint |-> "none", pins |-> << >>, fault |-> NoFault]

NoResponse == [code |-> 0, status |-> "none", entries |-> << >>]

\* ------------------------------------------------------------------ state
VARIABLES
    now,                  \* time.time()
    pc,                   \* position of the main thread
    exit_reason,          \* why start_detection ended
    buzzer_on,            \* self.buzzer_on
    last_buzzer_time,     \* self.last_buzzer_time
    pin_high,             \* the buzzer pin as the pin-control service drives it
    current_distance,     \* self.current_distance
    current_time,         \* local current_time
    last_detection_time,  \* local last_detection_time
    results,              \* boxes of this cycle still to be processed
    animal_detected,      \* local animal_detected
    lpc,                  \* position of the listener thread
    sender,               \* the distance producer's connection
    wire,                 \* bytes sent and not yet returned by recv
    \* observation only
    op,                   \* the loop operation the last step performed
    invoked,              \* the classifier was called in this cycle
    alerts,               \* animalType of the payloads built and posted in this cycle
    buzzer_call,          \* the control_buzzer call of the last step
    post_result,          \* the collector call of the last step
    on_issued_at,         \* clock when the command that switched OFF->ON was issued
    rx_line,              \* bytes received since the last line boundary
    last_line,            \* last complete line received
    payload,              \* the payload the last step built
    invoked_at,           \* current_time of the last iteration that called the model
    gpio_mode,            \* the server's GPIO_AVAILABLE once the module is loaded
    initialized_pins,     \* gpio_controller.initialized_pins
    gpio_level,           \* the level each pin was last driven to
    gpio_touched,         \* pins handed to GPIO.setup, GPIO.output or GPIO.input
    gpio_driven,          \* pins /gpio/pin or /gpio/pins reported as set
    request,              \* the request the server handled last
    response,             \* its response, until it is sent
    draw                  \* the model confidence and random draws it was built from

vars == <<now, pc, exit_reason, buzzer_on, last_buzzer_time, pin_high,
          current_distance, current_time, last_detection_time, results,
          animal_detected, lpc, sender, wire, op, invoked, alerts,
          buzzer_call, post_result, on_issued_at, rx_line, last_line,
          payload, draw, invoked_at, gpio_mode, initialized_pins, gpio_level,
          gpio_touched, gpio_driven, request, response>>

loopVars == <<pc, exit_reason, buzzer_on, last_buzzer_time, pin_high,
              current_time, last_detection_time, results, animal_detected,
              invoked, alerts, on_issued_at, invoked_at>>

listenerVars == <<current_distance, lpc, sender, wire, rx_line, last_line>>

detectorVars == <<now, loopVars, listenerVars, op, buzzer_call, post_result, payload, draw>>

gpioVars == <<gpio_mode, initialized_pins, gpio_level, gpio_touched, gpio_driven,
              request, response>>

\* Variant: the distance cell starts below the threshold.
Init_NearDefault ==
    /\ now = 0
    /\ pc = "init"
    /\ exit_reason = "none"
    /\ buzzer_on = FALSE
    /\ last_buzzer_time = 0
    /\ pin_high = FALSE
    /\ current_distance = distance_threshold - 1000
    /\ current_time = 0
    /\ last_detection_time = 0
    /\ results = << >>
    /\ animal_detected = FALSE
    /\ lpc = "accept"
    /\ sender = "idle"
    /\ wire = << >>
    /\ op = "none"
    /\ invoked = FALSE
    /\ alerts = << >>
    /\ buzzer_call = NoCall
    /\ post_result = "none"
    /\ on_issued_at = 0
    /\ rx_line = << >>
    /\ last_line = << >>
    /\ payload = NoPayload
    /\ draw = NoDraw
    /\ invoked_at = NoTime
    /\ gpio_mode = "unloaded"
    /\ initialized_pins = {}
    /\ gpio_level = [p \in PinNumbers |-> "unset"]
    /\ gpio_touched = {}
    /\ gpio_driven = {}
    /\ request = NoRequest
    /\ response = NoResponse

\* The detector after __init__, before start_detection and the listener run.
Init ==
    /\ now = 0
    /\ pc = "init"
    /\ exit_reason = "none"
    /\ buzzer_on = FALSE
    /\ last_buzzer_time = 0
    /\ pin_high = FALSE
    /\ current_distance = InitialDistance
    /\ current_time = 0
    /\ last_detection_time = 0
    /\ results = << >>
    /\ animal_detected = FALSE
    /\ lpc = "accept"
    /\ sender = "idle"
    /\ wire = << >>
    /\ op = "none"
    /\ invoked = FALSE
    /\ alerts = << >>
    /\ buzzer_call = NoCall
    /\ post_result = "none"
    /\ on_issued_at = 0
    /\ rx_line = << >>
    /\ last_line = << >>
    /\ payload = NoPayload
    /\ draw = NoDraw
    /\ invoked_at = NoTime
    /\ gpio_mode = "unloaded"
    /\ initialized_pins = {}
    /\ gpio_level = [p \in PinNumbers |-> "unset"]
    /\ gpio_touched = {}
    /\ gpio_driven = {}
    /\ request = NoRequest
    /\ response = NoResponse

\* The main thread has not returned; the listener is a daemon thread and
\* dies with it.
ProcessAlive == pc # "exited"

\* A step of something other than the detection loop.
NoPayloadBuilt ==
    /\ payload' = NoPayload
    /\ draw' = NoDraw

NoLoopEvent ==
    /\ op' = "none"
    /\ buzzer_call' = NoCall
    /\ post_result' = "none"
    /\ NoPayloadBuilt

Tick ==
    /\ UNCHANGED gpioVars
    /\ ProcessAlive
    /\ now < MaxTime
    /\ now' = now + 1
    /\ NoLoopEvent
    /\ UNCHANGED <<loopVars, listenerVars>>

\* ------------------------------------------------------ the detection loop
\* Lines 94-107: open the camera, force the buzzer off, start the clock.
Start ==
    /\ UNCHANGED gpioVars
    /\ pc = "init"
    /\ \E opened \in BOOLEAN :
         IF opened
         THEN \E outcome \in ServiceOutcomes :
                /\ buzzer_call' = [state |-> FALSE, outcome |-> outcome]
                /\ buzzer_on' = BuzzerOnAfter(buzzer_on, FALSE, outcome)
                /\ pin_high' = PinAfter(pin_high, FALSE, outcome)
                /\ last_detection_time' = now
                /\ pc' = "read"
                /\ exit_reason' = exit_reason
         ELSE /\ buzzer_call' = NoCall
              /\ pc' = "exited"
              /\ exit_reason' = "no_camera"
              /\ UNCHANGED <<buzzer_on, pin_high, last_detection_time>>
    /\ op' = "Start"
    /\ NoPayloadBuilt
    /\ post_result' = "none"
    /\ UNCHANGED <<now, last_buzzer_time, current_time, results, animal_detected,
                   invoked, alerts, on_issued_at, invoked_at, listenerVars>>

\* Variant: a failed read ends the loop, as in esp_cam_feed.py.
FrameFail_Break ==
    /\ UNCHANGED gpioVars
    /\ pc = "read"
    /\ pc' = "exited"
    /\ exit_reason' = "no_frame"
    /\ op' = "FrameFail"
    /\ NoPayloadBuilt
    /\ buzzer_call' = NoCall
    /\ post_result' = "none"
    /\ UNCHANGED <<now, buzzer_on, last_buzzer_time, pin_high, current_time,
                   last_detection_time, results, animal_detected, invoked,
                   alerts, on_issued_at, invoked_at, listenerVars>>

\* Lines 112-114: cap.read() fails, the iteration is skipped.
FrameFail ==
    /\ UNCHANGED gpioVars
    /\ pc = "read"
    /\ op' = "FrameFail"
    /\ NoPayloadBuilt
    /\ buzzer_call' = NoCall
    /\ post_result' = "none"
    /\ UNCHANGED <<now, loopVars, listenerVars>>

\* Lines 112-126: a frame is read, the clock is read, the auto-off is
\* evaluated and the sampling interval is tested.
ReadFrame ==
    /\ UNCHANGED gpioVars
    /\ pc = "read"
    /\ current_time' = now
    /\ IF AutoOffDue(buzzer_on, now, last_buzzer_time)
       THEN \E outcome \in ServiceOutcomes :
              /\ buzzer_call' = [state |-> FALSE, outcome |-> outcome]
              /\ buzzer_on' = BuzzerOnAfter(buzzer_on, FALSE, outcome)
              /\ pin_high' = PinAfter(pin_high, FALSE, outcome)
       ELSE /\ buzzer_call' = NoCall
            /\ UNCHANGED <<buzzer_on, pin_high>>
    /\ results' = << >>
    /\ invoked' = FALSE
    /\ alerts' = << >>
    /\ pc' = IF SamplePoint(now, last_detection_time) THEN "gate" ELSE "read"
    /\ op' = "ReadFrame"
    /\ NoPayloadBuilt
    /\ post_result' = "none"
    /\ UNCHANGED <<now, exit_reason, last_buzzer_time, last_detection_time,
                   animal_detected, on_issued_at, invoked_at, listenerVars>>

\* Lines 127-131: the proximity gate and the classifier call.
Gate ==
    /\ UNCHANGED gpioVars
    /\ pc = "gate"
    /\ IF ProximityGate(current_distance)
       THEN /\ results' \in DetectionLists
            /\ invoked' = TRUE
            /\ invoked_at' = current_time
       ELSE /\ results' = << >>
            /\ invoked' = FALSE
            /\ invoked_at' = invoked_at
    /\ animal_detected' = FALSE
    /\ pc' = "detect"
    /\ op' = "Gate"
    /\ NoPayloadBuilt
    /\ buzzer_call' = NoCall
    /\ post_result' = "none"
    /\ UNCHANGED <<now, exit_reason, buzzer_on, last_buzzer_time, pin_high,
                   current_time, last_detection_time, alerts, on_issued_at,
                   listenerVars>>

\* Lines 133-232: one box.  A monitored box is turned into a payload and
\* posted; when requests.post raises, response is None and line 231
\* (response.status_code) raises AttributeError, which only the finally
\* clause handles: the capture is released and start_detection ends.
Detect ==
    /\ UNCHANGED gpioVars
    /\ pc = "detect"
    /\ results # << >>
    /\ LET box == Head(results)
       IN  IF IsMonitored(box.name)
           THEN \E outcome \in PostOutcomes, jitter \in LoopJitters, r \in LoopRDraws :
                  /\ payload' = BuildPayload(box.name, box.conf, jitter, r)
                  /\ draw' = [raw |-> box.conf, jitter |-> jitter, r |-> r]
                  /\ alerts' = Append(alerts, box.name)
                  /\ post_result' = outcome
                  /\ IF outcome = "exception"
                     THEN /\ pc' = "exited"
                          /\ exit_reason' = "error"
                          /\ UNCHANGED <<results, animal_detected>>
                     ELSE /\ pc' = "detect"
                          /\ exit_reason' = exit_reason
                          /\ results' = Tail(results)
                          /\ animal_detected' = TRUE
           ELSE /\ post_result' = "none"
                /\ NoPayloadBuilt
                /\ results' = Tail(results)
                /\ UNCHANGED <<pc, exit_reason, alerts, animal_detected>>
    /\ op' = "Detect"
    /\ buzzer_call' = NoCall
    /\ UNCHANGED <<now, buzzer_on, last_buzzer_time, pin_high, current_time,
                   last_detection_time, invoked, on_issued_at, invoked_at,
                   listenerVars>>

\* Lines 234-241: the buzzer trigger and the end of the sample point.
Trigger ==
    /\ UNCHANGED gpioVars
    /\ pc = "detect"
    /\ results = << >>
    /\ IF TriggerCond(animal_detected, current_distance)
       THEN \E outcome \in ServiceOutcomes :
              /\ buzzer_call' = [state |-> TRUE, outcome |-> outcome]
              /\ buzzer_on' = BuzzerOnAfter(buzzer_on, TRUE, outcome)
              /\ pin_high' = PinAfter(pin_high, TRUE, outcome)
              /\ last_buzzer_time' = current_time
              /\ on_issued_at' = IF ~buzzer_on /\ buzzer_on' THEN now ELSE on_issued_at
       ELSE /\ buzzer_call' = NoCall
            /\ UNCHANGED <<buzzer_on, pin_high, last_buzzer_time, on_issued_at>>
    /\ last_detection_time' = SampleTimeAfter(current_time, last_detection_time, invoked)
    /\ invoked' = FALSE
    /\ alerts' = << >>
    /\ pc' = "read"
    /\ op' = "Trigger"
    /\ NoPayloadBuilt
    /\ post_result' = "none"
    /\ UNCHANGED <<now, exit_reason, current_time, results, animal_detected,
                   invoked_at, listenerVars>>

\* Lines 243-247: KeyboardInterrupt inside the loop.
Interrupt ==
    /\ UNCHANGED gpioVars
    /\ pc \in {"read", "gate", "detect"}
    /\ \E outcome \in ServiceOutcomes :
         /\ buzzer_call' = [state |-> FALSE, outcome |-> outcome]
         /\ buzzer_on' = BuzzerOnAfter(buzzer_on, FALSE, outcome)
         /\ pin_high' = PinAfter(pin_high, FALSE, outcome)
    /\ pc' = "exited"
    /\ exit_reason' = "interrupt"
    /\ op' = "Interrupt"
    /\ NoPayloadBuilt
    /\ post_result' = "none"
    /\ UNCHANGED <<now, last_buzzer_time, current_time, last_detection_time,
                   results, animal_detected, invoked, alerts, on_issued_at,
                   invoked_at, listenerVars>>

\* ------------------------------------------- the producer and the listener
LinesInFlight == Cardinality({i \in 1..Len(wire) : wire[i] = "\n"})

\* ultrasonic.py 21 / tl3.py 70: the producer connects, accept returns.
Connect ==
    /\ UNCHANGED gpioVars
    /\ ProcessAlive
    /\ lpc = "accept"
    /\ sender = "idle"
    /\ lpc' = "recv"
    /\ sender' = "connected"
    /\ NoLoopEvent
    /\ UNCHANGED <<now, loopVars, current_distance, wire, rx_line, last_line>>

\* ultrasonic.py 42-48: one line is written to the socket.
Send(line) ==
    /\ UNCHANGED gpioVars
    /\ ProcessAlive
    /\ sender = "connected"
    /\ lpc = "recv"
    /\ LinesInFlight < MaxInFlight
    /\ wire' = wire \o line
    /\ NoLoopEvent
    /\ UNCHANGED <<now, loopVars, current_distance, lpc, sender, rx_line, last_line>>

\* ultrasonic.py 50-52: the producer closes the socket.
Close ==
    /\ UNCHANGED gpioVars
    /\ ProcessAlive
    /\ sender = "connected"
    /\ sender' = "closed"
    /\ NoLoopEvent
    /\ UNCHANGED <<now, loopVars, current_distance, lpc, wire, rx_line, last_line>>

\* The line splitter the interface describes, kept beside the listener:
\* the bytes since the last boundary and the last complete line.
RECURSIVE SplitLines(_, _, _)
SplitLines(partial, last, data) ==
    IF data = << >> THEN <<partial, last>>
    ELSE IF Head(data) = "\n"
         THEN SplitLines(<< >>, partial, Tail(data))
         ELSE SplitLines(Append(partial, Head(data)), last, Tail(data))

\* Lines 75-83: recv returns the first k bytes in flight.
Recv(k) ==
    /\ UNCHANGED gpioVars
    /\ ProcessAlive
    /\ lpc = "recv"
    /\ k \in 1..Len(wire)
    /\ LET data == SubSeq(wire, 1, k)
       IN  /\ wire' = SubSeq(wire, k + 1, Len(wire))
           /\ IF DecodeOK(data)
              THEN /\ current_distance' = DistanceAfter(current_distance, data)
                   /\ lpc' = "recv"
              ELSE \* UnicodeDecodeError at line 78, caught at line 84
                   /\ current_distance' = current_distance
                   /\ lpc' = "stopped"
           /\ rx_line' = SplitLines(rx_line, last_line, data)[1]
           /\ last_line' = SplitLines(rx_line, last_line, data)[2]
    /\ NoLoopEvent
    /\ UNCHANGED <<now, loopVars, sender>>

\* Variant: the listener goes back to accept when the connection ends.
RecvEOF_Relisten ==
    /\ UNCHANGED gpioVars
    /\ ProcessAlive
    /\ lpc = "recv"
    /\ sender = "closed"
    /\ wire = << >>
    /\ lpc' = "accept"
    /\ sender' = "idle"
    /\ NoLoopEvent
    /\ UNCHANGED <<now, loopVars, current_distance, wire, rx_line, last_line>>

\* Lines 75-77 and 86-89: recv returns b"" after the producer closed.
RecvEOF ==
    /\ UNCHANGED gpioVars
    /\ ProcessAlive
    /\ lpc = "recv"
    /\ sender = "closed"
    /\ wire = << >>
    /\ lpc' = "stopped"
    /\ NoLoopEvent
    /\ UNCHANGED <<now, loopVars, current_distance, sender, wire, rx_line, last_line>>

\* ---------------------------------------------------------- specifications
\* The whole detector with the producer of ultrasonic.py: one valid line a
\* second, each returned whole by one recv.
SendReading == \E line \in ValidLines : wire = << >> /\ Send(line)

RecvWhole == wire # << >> /\ Recv(Len(wire))

Next ==
    \/ Tick
    \/ Start
    \/ FrameFail
    \/ ReadFrame
    \/ Gate
    \/ Detect
    \/ Trigger
    \/ Interrupt
    \/ Connect
    \/ SendReading
    \/ RecvWhole

Spec == Init /\ [][Next]_vars

\* The listener against any client and any delivery of the byte stream.
SendAny == \E line \in ValidLines \cup MalformedLines : Send(line)

RecvAny == \E k \in 1..Len(wire) : Recv(k)

NextListener ==
    \/ Connect
    \/ SendAny
    \/ RecvAny
    \/ Close
    \/ RecvEOF

SpecListener == Init /\ [][NextListener]_vars

\* The listener against the producer of ultrasonic.py (valid lines only) and
\* any delivery of the byte stream.
SendValid == \E line \in ValidLines : Send(line)

NextProducer ==
    \/ Connect
    \/ SendValid
    \/ RecvAny
    \/ Close
    \/ RecvEOF

SpecProducer == Init /\ [][NextProducer]_vars

\* The detector with a producer that sends whole valid lines and may close
\* the connection.
NextOneConnection ==
    \/ Tick
    \/ Start
    \/ ReadFrame
    \/ Gate
    \/ Detect
    \/ Trigger
    \/ Connect
    \/ SendReading
    \/ RecvWhole
    \/ Close
    \/ RecvEOF

SpecOneConnection == Init /\ [][NextOneConnection]_vars

\* The payload builder of lines 143-216 applied once to every monitored
\* label, over raw confidences, jitters and draws of random.random().
SynthNames == animal_classes \cup {"Cat"}

SynthRaws == {0, 50, 80, 100}

SynthJitters == {-200, -187, 0, 16, 200}

RDraws == 0..99

Synthesize ==
    /\ UNCHANGED gpioVars
    /\ pc = "init"
    /\ payload = NoPayload
    /\ \E name \in SynthNames, raw \in SynthRaws, jitter \in SynthJitters, r \in RDraws :
         /\ payload' = BuildPayload(name, raw, jitter, r)
         /\ draw' = [raw |-> raw, jitter |-> jitter, r |-> r]
    /\ op' = "Synthesize"
    /\ UNCHANGED <<now, loopVars, listenerVars, buzzer_call, post_result>>

NextSynth == Synthesize

SpecSynth == Init /\ [][NextSynth]_vars

\* ------------------------------------------- the pin-control server's steps
\* The hardware state the controller works on.
Hardware == [initialized |-> initialized_pins, level |-> gpio_level, touched |-> gpio_touched]

SetHardware(hw) ==
    /\ initialized_pins' = hw.initialized
    /\ gpio_level' = hw.level
    /\ gpio_touched' = hw.touched

\* The server takes one request at a time: the handlers are coroutines
\* that never await.
ServerIdle == gpio_mode # "unloaded" /\ response = NoResponse

\* Lines 15-21 and 256: the module is imported, with RPi.GPIO or without.
LoadServer ==
    /\ gpio_mode = "unloaded"
    /\ gpio_mode' \in {"hardware", "simulation"}
    /\ UNCHANGED <<detectorVars, initialized_pins, gpio_level, gpio_touched,
                   gpio_driven, request, response>>

\* Lines 144-171: POST /gpio/pin.
ControlSinglePin ==
    /\ ServerIdle
    /\ \E req \in PinRequests, fault \in Faults :
         /\ request' = [endpoint |-> "pin", pins |-> <<req>>, fault |-> fault]
         /\ IF ~ValidPin(req.pin)
            THEN /\ response' = [code |-> 400, status |-> "error", entries |-> << >>]
                 /\ UNCHANGED <<initialized_pins, gpio_level, gpio_touched, gpio_driven>>
            ELSE LET set == SetPinState(Hardware, req.pin, req.state, fault, gpio_mode)
                 IN  /\ SetHardware(set.hw)
                     /\ IF set.ok
                        THEN /\ response' = [code |-> 200, status |-> "success",
                                             entries |-> <<[pin |-> req.pin, state |-> req.state,
                                                            status |-> "success"]>>]
                             /\ gpio_driven' = gpio_driven \cup {req.pin}
                        ELSE /\ response' = [code |-> 500, status |-> "error", entries |-> << >>]
                             /\ gpio_driven' = gpio_driven
    /\ UNCHANGED <<detectorVars, gpio_mode>>

\* Lines 173-210: POST /gpio/pins.
ControlMultiplePins ==
    /\ ServerIdle
    /\ \E pins \in SeqsUpTo(PinRequests, MaxPins), fault \in Faults :
         LET done == MultiplePins(Hardware, pins, fault, gpio_mode)
         IN  /\ request' = [endpoint |-> "pins", pins |-> pins, fault |-> fault]
             /\ SetHardware(done.hw)
             /\ response' = [code |-> 200, status |-> "list", entries |-> done.entries]
             /\ gpio_driven' = gpio_driven \cup PinsWith(done.entries, "success")
    /\ UNCHANGED <<detectorVars, gpio_mode>>

\* Lines 212-228 with 104-114: GET /gpio/pin/{pin}.
GetPinState ==
    /\ ServerIdle
    /\ \E pin \in PinNumbers :
         /\ request' = [endpoint |-> "get", pins |-> <<[pin |-> pin, state |-> FALSE]>>,
                        fault |-> NoFault]
         /\ IF ~ValidPin(pin)
            THEN /\ response' = [code |-> 400, status |-> "error", entries |-> << >>]
                 /\ gpio_touched' = gpio_touched
            ELSE IF gpio_mode = "hardware" /\ pin \in initialized_pins
            THEN /\ response' = [code |-> 200, status |-> "state",
                                 entries |-> <<[pin |-> pin, state |-> gpio_level[pin] = "HIGH",
                                                status |-> "read"]>>]
                 /\ gpio_touched' = gpio_touched \cup {pin}
            ELSE /\ response' = [code |-> 200, status |-> "state",
                                 entries |-> <<[pin |-> pin, state |-> FALSE,
                                                status |-> "unknown"]>>]
                 /\ gpio_touched' = gpio_touched
    /\ UNCHANGED <<detectorVars, gpio_mode, initialized_pins, gpio_level, gpio_driven>>

\* Lines 230-253: POST /gpio/reset.
ResetAllPins ==
    /\ ServerIdle
    /\ \E order \in Orders(initialized_pins), fault \in Faults :
         LET done == ResetPins(Hardware, order, fault, gpio_mode)
         IN  /\ request' = [endpoint |-> "reset", pins |-> << >>, fault |-> fault]
             /\ SetHardware(done.hw)
             /\ response' = [code |-> 200, status |-> "success", entries |-> done.entries]
    /\ UNCHANGED <<detectorVars, gpio_mode, gpio_driven>>

\* The response goes out and the server waits for the next request.
SendResponse ==
    /\ response # NoResponse
    /\ request' = NoRequest
    /\ response' = NoResponse
    /\ UNCHANGED <<detectorVars, gpio_mode, initialized_pins, gpio_level, gpio_touched,
                   gpio_driven>>

\* The pin-control server against any client.
NextGpio ==
    \/ LoadServer
    \/ ControlSinglePin
    \/ ControlMultiplePins
    \/ GetPinState
    \/ ResetAllPins
    \/ SendResponse

SpecGpio == Init /\ [][NextGpio]_vars

\* ------------------------------------------------------------- properties
IssuedCall == buzzer_call.outcome # "none"

\* C1: the classifier is invoked in an iteration exactly when the sampling
\* interval has elapsed and the distance read at the gate is strictly below
\* the threshold; an iteration before the interval never reaches the gate,
\* and a cycle whose gate failed builds no alert and sends no ON command.
C1_ClassifierGate ==
    [][ /\ (invoked' /\ ~invoked) =>
              /\ op' = "Gate"
              /\ current_time - last_detection_time >= SamplingInterval
              /\ current_distance < distance_threshold
        /\ (op' = "Gate" /\ current_time - last_detection_time >= SamplingInterval
                         /\ current_distance < distance_threshold) => invoked'
        /\ (op' = "Gate" /\ current_distance >= distance_threshold) =>
              (~invoked' /\ results' = << >>)
        /\ (op' = "ReadFrame" /\ current_time' - last_detection_time < SamplingInterval) =>
              (pc' = "read" /\ ~invoked')
        /\ (op' = "Gate") => (current_time - last_detection_time >= SamplingInterval)
        /\ (op' = "Detect" /\ ~invoked) => FALSE
        /\ (op' = "Trigger" /\ ~invoked) =>
              (alerts = << >> /\ buzzer_call' = NoCall /\ buzzer_on' = buzzer_on)
      ]_vars

\* A sample point whose gate read exactly the threshold and did not classify.
C1_Witness ==
    /\ op = "Gate"
    /\ pc = "detect"
    /\ ~invoked
    /\ current_distance = distance_threshold

\* C2: an ON command is sent, and the tracked state goes OFF->ON, only at
\* the trigger of a sample-point cycle that built at least one alert and in
\* which the distance read at that moment is strictly below the threshold.
C2_OnOnlyWithAlertAndNear ==
    [][ ((IssuedCall' /\ buzzer_call'.state) \/ (~buzzer_on /\ buzzer_on')) =>
            /\ op' = "Trigger"
            /\ Len(alerts) >= 1
            /\ current_distance < distance_threshold
            /\ current_time - last_detection_time >= SamplingInterval
      ]_vars

\* The trigger just switched the buzzer on.
C2_Witness ==
    /\ op = "Trigger"
    /\ buzzer_call = [state |-> TRUE, outcome |-> "ok"]
    /\ buzzer_on
    /\ on_issued_at = now

\* C3: every iteration that acquires a frame, sample point or not, sends an
\* OFF command exactly when the buzzer is tracked ON and the iteration's
\* clock is at least buzzer_duration past last_buzzer_time; the tracked
\* state becomes OFF exactly when the service answers 200.
C3_AutoOffEveryIteration ==
    [][ op' = "ReadFrame" =>
          LET due == buzzer_on /\ current_time' - last_buzzer_time >= buzzer_duration
          IN  /\ due <=> (IssuedCall' /\ ~buzzer_call'.state)
              /\ due => (buzzer_on' <=> buzzer_call'.outcome \notin {"ok", "pin_error"})
              /\ ~due => buzzer_on' = buzzer_on
      ]_vars

\* An iteration that is no sample point switched the buzzer off at exactly
\* buzzer_duration.
C3_Witness ==
    /\ op = "ReadFrame"
    /\ pc = "read"
    /\ buzzer_call = [state |-> FALSE, outcome |-> "ok"]
    /\ ~buzzer_on
    /\ current_time - last_buzzer_time = buzzer_duration

\* C4: a buzzer command that fails (exception, timeout or a status other
\* than 200) leaves buzzer_on and last_buzzer_time as they were.
C4_FailedCommandKeepsState ==
    [][ (IssuedCall' /\ buzzer_call'.outcome \in {"http_error", "exception", "lost_reply"}) =>
            (buzzer_on' = buzzer_on /\ last_buzzer_time' = last_buzzer_time)
      ]_vars

\* C5: while the buzzer is tracked ON, last_buzzer_time is the clock value
\* at which the command that switched it from OFF to ON was issued.
C5_ActivatedAtIsOnTime == buzzer_on => last_buzzer_time = on_issued_at

\* C6: no automatic OFF command is sent before buzzer_duration has elapsed
\* since the command that switched the buzzer on was issued.
C6_Debounce ==
    [][ (op' = "ReadFrame" /\ IssuedCall' /\ ~buzzer_call'.state) =>
            now - on_issued_at >= buzzer_duration
      ]_vars

\* C7: a failed collector call (exception or a non-success status) is
\* swallowed: the loop goes on with the remaining boxes, the alert counts
\* for the trigger, and the call is not repeated.
C7_DispatchFailureSwallowed ==
    [][ post_result' \in {"exception", "http_error"} =>
            /\ pc' = "detect"
            /\ exit_reason' = "none"
            /\ animal_detected'
            /\ results' = Tail(results)
            /\ Len(alerts') = Len(alerts) + 1
      ]_vars

\* C8: whenever the bytes received so far end with a complete line that is
\* a valid decimal, the distance cell holds that line's value, however recv
\* cut the stream.
C8_CellEqualsLastValidLine ==
    (lpc = "recv" /\ rx_line = << >> /\ FloatOK(last_line)) =>
        current_distance = FloatValue(last_line)

\* The bytes the step took off the wire (the data recv returned).
Received == SubSeq(wire, 1, Len(wire) - Len(wire'))

\* C9: a recv whose data is not a decimal number leaves the distance cell
\* as it was and leaves the listener reading.
C9_MalformedInputIgnored ==
    [][ (Len(wire') < Len(wire) /\ ~(DecodeOK(Received) /\ FloatOK(Strip(Received)))) =>
            (current_distance' = current_distance /\ lpc' = "recv")
      ]_vars

\* C10: a box whose lower-cased class name is not in animal_classes builds
\* no payload, makes no collector call and does not set animal_detected,
\* whatever its confidence.
C10_UnmonitoredDropped ==
    [][ (op' = "Detect" /\ results # << >> /\ Lower(Head(results).name) \notin animal_classes) =>
            /\ alerts' = alerts
            /\ post_result' = "none"
            /\ animal_detected' = animal_detected
            /\ results' = Tail(results)
            /\ pc' = "detect"
      ]_vars

\* A box was dropped (no payload in the cycle so far) and an unmonitored
\* box of high confidence is next.
C10_Witness ==
    /\ op = "Detect"
    /\ invoked
    /\ alerts = << >>
    /\ ~animal_detected
    /\ results = << [name |-> "person", conf |-> 90] >>

\* The boxes of a list that line 136 lets through.
MonitoredIn(boxes) ==
    Cardinality({i \in 1..Len(boxes) : Lower(boxes[i].name) \in animal_classes})

\* C11: in a sample-point cycle with the distance below the threshold and
\* the collector reachable, every monitored box the classifier returned
\* becomes one payload that is posted once and no other payload is built;
\* a cycle that built a payload with the distance still below the threshold
\* issues one ON command, at its end, and the tracked state is ON when the
\* service answers 200.  A payload for "dog" has a severity derived from
\* medium and a confidence within (60, 90) widened by the jitter.
C11_OneAlertPerDetection ==
    [][ /\ (op' = "Gate") => (alerts' = << >> /\ payload' = NoPayload)
        /\ (op' = "Detect" /\ post_result' # "exception") =>
              /\ Len(alerts') + MonitoredIn(results') = Len(alerts) + MonitoredIn(results)
              /\ Len(results') = Len(results) - 1
              /\ IF Lower(Head(results).name) \in animal_classes
                 THEN /\ payload'.animalType = Head(results).name
                      /\ alerts' = Append(alerts, payload'.animalType)
                      /\ post_result' \in {"ok", "http_error"}
                 ELSE /\ payload' = NoPayload
                      /\ post_result' = "none"
        /\ (op' # "Detect") => (payload' = NoPayload /\ post_result' = "none")
        /\ (op' = "Detect" /\ payload'.animalType = "dog") =>
              /\ payload'.severity = (IF draw'.r < 5 THEN "critical"
                                      ELSE IF draw'.r < 20 THEN "high"
                                      ELSE IF draw'.r < 25 THEN "low" ELSE "medium")
              /\ payload'.confidence \in 580..920
              /\ 10 * payload'.confidence - (6000 + 30 * draw'.raw + draw'.jitter) \in -5..5
        /\ (op' = "Trigger" /\ Len(alerts) >= 1 /\ current_distance < distance_threshold) =>
              /\ IssuedCall'
              /\ buzzer_call'.state
              /\ (buzzer_call'.outcome \in {"ok", "pin_error"}) => buzzer_on'
        /\ (IssuedCall' /\ buzzer_call'.state) =>
              (op' = "Trigger" /\ Len(alerts) >= 1 /\ pc' = "read")
      ]_vars

\* Two monitored boxes were returned and both payloads were built and posted.
C11_Witness ==
    /\ op = "Detect"
    /\ invoked
    /\ current_distance < distance_threshold
    /\ results = << >>
    /\ Len(alerts) = 2
    /\ payload.animalType = "dog"
    /\ payload.severity = "medium"
    /\ post_result = "ok"

C15_OffAtStartAndExit ==
    [][ /\ (pc = "init" /\ pc' = "read") => (IssuedCall' /\ ~buzzer_call'.state)
        /\ (pc \in {"read", "gate", "detect"} /\ pc' = "exited") =>
              /\ op' = "Interrupt"
              /\ exit_reason' = "interrupt"
              /\ IssuedCall'
              /\ ~buzzer_call'.state
      ]_vars

\* A step of the detection loop can be taken.
LoopCanStep == ENABLED (ReadFrame \/ Gate \/ Detect \/ Trigger)

\* C16: the listener accepts one connection and never goes back to accept;
\* when the producer has closed and recv returns nothing the listener
\* ends, stays ended and leaves the distance cell as it is from then on;
\* the step that ends it changes nothing of the detection loop, which can
\* take its next step in every state reached with the listener ended.
C16_OneConnectionThenStale ==
    [][ /\ (lpc # "accept") => (lpc' # "accept")
        /\ (lpc = "recv" /\ sender = "closed" /\ wire = << >> /\ lpc' # lpc) =>
              (lpc' = "stopped" /\ UNCHANGED <<loopVars, current_distance>>)
        /\ (lpc = "stopped") => (lpc' = "stopped" /\ current_distance' = current_distance)
        /\ (lpc' = "stopped" /\ pc' \in {"read", "gate", "detect"}) => LoopCanStep'
      ]_vars

\* After the listener ended with the last reading at 40.0, a sample point
\* passed the gate on that value and the model was called.
C16_Witness ==
    /\ lpc = "stopped"
    /\ sender = "closed"
    /\ current_distance = 4000
    /\ op = "Gate"
    /\ invoked
    /\ buzzer_on

\* C17: only a recv step of the listener changes the distance cell, and it
\* writes the value of the whole decoded and parsed data it received; no
\* step of the detection loop changes the cell; after every step the cell
\* holds the start default or the value of the last complete line received.
C17_SingleWriterWholeValues ==
    [][ IF Len(wire') < Len(wire)
        THEN /\ op' = "none"
             /\ lpc = "recv"
             /\ DecodeOK(Received)
             /\ FloatOK(Strip(Received))
             /\ current_distance' = FloatValue(Strip(Received))
             /\ current_distance' = FloatValue(last_line')
        ELSE /\ current_distance' = current_distance
             /\ last_line' = last_line
             /\ (last_line = << >>) => (current_distance = InitialDistance)
      ]_vars

\* The gate read 40.0, the last line received, while the next line was in
\* flight.
C17_Witness ==
    /\ op = "Gate"
    /\ invoked
    /\ current_distance = 4000
    /\ last_line = <<"4", "0", ".", "0">>
    /\ wire = <<"5", "0", ".", "0", "\n">>

\* C18: an iteration whose cap.read() fails changes nothing of the loop:
\* last_detection_time, buzzer_on and last_buzzer_time stay, the model is
\* not called, nothing is posted, no buzzer command is issued, and the loop
\* is back at reading a frame, where both outcomes of the next read are
\* possible at once.
C18_FailedFrameSkipped ==
    [][ (op' = "FrameFail") =>
            /\ UNCHANGED <<last_detection_time, buzzer_on, last_buzzer_time, pin_high,
                           current_time, invoked_at, alerts, results, now>>
            /\ ~IssuedCall'
            /\ post_result' = "none"
            /\ payload' = NoPayload
            /\ pc' = "read"
            /\ exit_reason' = "none"
            /\ (ENABLED ReadFrame)'
            /\ (ENABLED FrameFail)'
      ]_vars

\* A read failed while the buzzer was on and its auto-off was due.
C18_Witness ==
    /\ op = "FrameFail"
    /\ pc = "read"
    /\ buzzer_on
    /\ now - last_buzzer_time >= buzzer_duration
    /\ now - last_detection_time >= SamplingInterval

\* C19: whenever a buzzer command is answered with status 200, so that
\* control_buzzer sets buzzer_on to the commanded state, the pin-control
\* service has driven the buzzer pin to that state.
C19_TrackedMatchesPin ==
    [][ (IssuedCall' /\ buzzer_call'.outcome \in {"ok", "pin_error"}) =>
            /\ buzzer_on' = buzzer_call'.state
            /\ pin_high' = buzzer_call'.state
      ]_vars

\* C20: once the buzzer is tracked ON with its duration elapsed at the
\* clock value of an iteration (an automatic OFF was due and was not
\* confirmed), the duration stays elapsed for as long as the buzzer is
\* tracked ON, and every iteration that reads a frame issues the OFF
\* command again.
C20_AutoOffRetriedUntilConfirmed ==
    [][ (buzzer_on /\ current_time - last_buzzer_time >= buzzer_duration) =>
            /\ buzzer_on' => (current_time' - last_buzzer_time' >= buzzer_duration)
            /\ (op' = "ReadFrame") => (IssuedCall' /\ ~buzzer_call'.state)
      ]_vars

\* C12: the severity of a payload is the entry of severity_order at the
\* base index of the label moved by the offset of the draw r and clamped to
\* the table: two up when r < 0.05, one up when 0.05 <= r < 0.20, one down
\* when 0.20 <= r < 0.25, unmoved otherwise; it is always one of the four
\* levels.
C12_SeverityRule ==
    payload # NoPayload =>
        LET b   == IndexOf(base_map[Lower(payload.animalType)])
            r   == draw.r
            idx == CASE r < 5 -> IF b + 2 > 3 THEN 3 ELSE b + 2
                     [] r >= 5 /\ r < 20 -> IF b + 1 > 3 THEN 3 ELSE b + 1
                     [] r >= 20 /\ r < 25 -> IF b - 1 < 0 THEN 0 ELSE b - 1
                     [] OTHER -> b
        IN  /\ payload.severity = severity_order[idx + 1]
            /\ payload.severity \in {"low", "medium", "high", "critical"}

\* An elephant raised by two stays critical.
C12_Witness ==
    /\ op = "Synthesize"
    /\ payload.animalType = "elephant"
    /\ draw.r < 5
    /\ payload.severity = "critical"

\* C13: the confidence of a payload is a percentage between 0 and 100 with
\* one decimal, the nearest tenth to 100 * clamp(low + (high - low) * raw +
\* jitter, 0, 1) for the range (low, high) of the label.
C13_ConfidenceRule ==
    payload # NoPayload =>
        LET range == conf_ranges[Lower(payload.animalType)]
            x     == 100 * range[1] + (range[2] - range[1]) * draw.raw + draw.jitter
            c     == IF x < 0 THEN 0 ELSE IF x > 10000 THEN 10000 ELSE x
        IN  /\ payload.confidence \in 0..1000
            /\ 10 * payload.confidence - c \in -5..5

\* An elephant at raw confidence 1.0 and jitter +0.02 is clamped to 100.0.
C13_Witness ==
    /\ op = "Synthesize"
    /\ payload.animalType = "elephant"
    /\ draw.raw = 100
    /\ draw.jitter = 200
    /\ payload.confidence = 1000

\* C21: as long as no reading has been received, the distance cell holds
\* the start default 999 and no cycle calls the model, builds or posts an
\* alert, or issues an ON command, whatever the number of sample points.
C21_SentinelBlocksDetection ==
    [][ (last_line' = << >>) =>
            /\ current_distance' = InitialDistance
            /\ ~invoked'
            /\ invoked_at' = NoTime
            /\ results' = << >>
            /\ alerts' = << >>
            /\ payload' = NoPayload
            /\ post_result' = "none"
            /\ ~(IssuedCall' /\ buzzer_call'.state)
            /\ ~buzzer_on'
      ]_vars

\* Three sample points have ended with the producer connected and no
\* reading received yet.
C21_Witness ==
    /\ op = "Trigger"
    /\ last_line = << >>
    /\ lpc = "recv"
    /\ current_distance = InitialDistance
    /\ last_detection_time >= 3 * SamplingInterval

\* C22: no request makes the server hand a pin number outside 0..27 to
\* GPIO.setup, GPIO.output or GPIO.input, or drive it, or put it into
\* initialized_pins; POST /gpio/pin and GET /gpio/pin/{pin} answer such a
\* number with status 400 and change nothing.
C22_OnlyBcmPinsTouched ==
    [][ /\ \A p \in gpio_touched' \cup initialized_pins' : 0 <= p /\ p <= 27
        /\ \A p \in PinNumbers : (p < 0 \/ p > 27) => gpio_level'[p] = "unset"
        /\ ( /\ response' # NoResponse
             /\ request'.endpoint \in {"pin", "get"}
             /\ (request'.pins[1].pin < 0 \/ request'.pins[1].pin > 27) ) =>
              /\ response'.code = 400
              /\ UNCHANGED <<initialized_pins, gpio_level, gpio_touched, gpio_driven>>
      ]_vars

\* Pin 28 was refused by POST /gpio/pin while pin 27 is set up and high.
C22_Witness ==
    /\ request.endpoint = "pin"
    /\ request.pins[1].pin = 28
    /\ response.code = 400
    /\ 27 \in initialized_pins
    /\ gpio_level[27] = "HIGH"
    /\ gpio_level[28] = "unset"

\* C23: POST /gpio/pins answers 200 with one entry per requested pin, in
\* request order; an entry for a number outside 0..27 or for a pin whose
\* GPIO call raised has status "error" and that pin keeps its level; every
\* other entry has status "success", and on the hardware each pin ends at
\* the state of its last successful entry.
C23_MultiPinsIndependent ==
    [][ (request'.endpoint = "pins" /\ response' # NoResponse) =>
            LET R == request'.pins
                E == response'.entries
                f == request'.fault
            IN  /\ response'.code = 200
                /\ Len(E) = Len(R)
                /\ \A i \in 1..Len(R) :
                      /\ E[i].pin = R[i].pin
                      /\ E[i].state = R[i].state
                      /\ E[i].status \in {"success", "error"}
                      /\ (R[i].pin < 0 \/ R[i].pin > 27) => E[i].status = "error"
                      /\ ( /\ R[i].pin >= 0
                           /\ R[i].pin <= 27
                           /\ (gpio_mode = "simulation" \/ f.kind = "none" \/ f.pin # R[i].pin) ) =>
                            E[i].status = "success"
                /\ \A p \in PinNumbers :
                      LET ok == {i \in 1..Len(E) : E[i].pin = p /\ E[i].status = "success"}
                      IN  IF ok = {} \/ gpio_mode = "simulation"
                          THEN gpio_level'[p] = gpio_level[p]
                          ELSE LET last == CHOOSE i \in ok : \A j \in ok : j <= i
                               IN  gpio_level'[p] = (IF R[last].state THEN "HIGH" ELSE "LOW")
      ]_vars

\* Pin 27 failed and stayed low while pin 0, asked for after it in the same
\* request, was driven high.
C23_Witness ==
    /\ gpio_mode = "hardware"
    /\ request.endpoint = "pins"
    /\ request.pins = <<[pin |-> 27, state |-> TRUE], [pin |-> 0, state |-> TRUE]>>
    /\ response.entries[1].status = "error"
    /\ response.entries[2].status = "success"
    /\ gpio_level[27] = "LOW"
    /\ gpio_level[0] = "HIGH"

\* C24: when POST /gpio/reset answers 200, every pin that /gpio/pin or
\* /gpio/pins reported as set before is LOW and the entries of the answer
\* name exactly those pins; no request removes a pin from
\* initialized_pins.
C24_ResetDrivesAllLow ==
    [][ /\ (request'.endpoint = "reset" /\ response'.code = 200) =>
              /\ \A p \in gpio_driven : gpio_level'[p] = "LOW"
              /\ {response'.entries[i].pin : i \in 1..Len(response'.entries)} = gpio_driven
        /\ initialized_pins \subseteq initialized_pins'
      ]_vars

====
